---- MODULE Spec2Model ----
(***************************************************************************)
(* Model of the ASS subtitle parser of src/main.py:                        *)
(* parse_ass_to_dicts_first_color and _ass_time_to_seconds.                *)
(*                                                                         *)
(* A Python str is modelled as a sequence of one-character strings, so     *)
(* strip, startswith, split, int, float, the two regular expressions and   *)
(* replace are computed character by character as CPython computes them.   *)
(* A Python float is modelled as an exact decimal [units, places] meaning  *)
(* units * 10^-places; binary rounding (below 1e-9 here) is not modelled.  *)
(*                                                                         *)
(* The second part models create_subtitles of                              *)
(* src/create_subtitles_detailed.py: its control flow through try, except  *)
(* and finally, and the files it creates and removes.  The two scripts are *)
(* separate programs: each has its own specification, under which the      *)
(* variables of the other do not change.                                   *)
(***************************************************************************)
EXTENDS Integers, Sequences, FiniteSets, TLC

\* src/main.py
VARIABLES lines, i, in_styles_section, in_events_section, default_fontsize,
          texts, pc

\* src/create_subtitles_detailed.py
VARIABLES cs_pc, video_found, has_audio, word_level, video, pending,
          error_printed, temp_exists, remove_failed, segments, has_words,
          srt_exists, srt_written, json_exists

parser_vars == <<lines, i, in_styles_section, in_events_section,
                 default_fontsize, texts, pc>>

subtitle_vars == <<cs_pc, video_found, has_audio, word_level, video, pending,
                   error_printed, temp_exists, remove_failed, segments,
                   has_words, srt_exists, srt_written, json_exists>>

vars == <<parser_vars, subtitle_vars>>

(* ------------------------------------------------------------------ *)
(* str helpers                                                        *)
(* ------------------------------------------------------------------ *)

\* the characters str.strip() removes that a line of splitlines() can hold
WhiteSpace == {" ", "\t"}

DigitChars == <<"0", "1", "2", "3", "4", "5", "6", "7", "8", "9">>

UpperChars == <<"A", "B", "C", "D", "E", "F", "G", "H", "I", "J", "K", "L", "M", "N", "O", "P", "Q", "R", "S", "T", "U", "V", "W", "X", "Y", "Z">>

LowerChars == <<"a", "b", "c", "d", "e", "f", "g", "h", "i", "j", "k", "l", "m", "n", "o", "p", "q", "r", "s", "t", "u", "v", "w", "x", "y", "z">>

HexChars == {"0", "1", "2", "3", "4", "5", "6", "7", "8", "9",
             "A", "B", "C", "D", "E", "F", "a", "b", "c", "d", "e", "f"}

IsDigit(c) == \E k \in 1..10 : DigitChars[k] = c

DigitVal(c) == (CHOOSE k \in 1..10 : DigitChars[k] = c) - 1

SubStr(s, a, b) == [k \in 1..(b - a + 1) |-> s[a + k - 1]]

\* s[a:] of Python with a 1-based
Tail_from(s, a) == SubStr(s, a, Len(s))

RECURSIVE LStrip(_)
LStrip(s) ==
    IF s = <<>> THEN s
    ELSE IF s[1] \in WhiteSpace THEN LStrip(Tail(s)) ELSE s

RECURSIVE RStrip(_)
RStrip(s) ==
    IF s = <<>> THEN s
    ELSE IF s[Len(s)] \in WhiteSpace THEN RStrip(SubStr(s, 1, Len(s) - 1)) ELSE s

\* str.strip()
Strip(s) == RStrip(LStrip(s))

\* str.startswith(p)
StartsWith(s, p) == Len(s) >= Len(p) /\ SubStr(s, 1, Len(p)) = p

\* str.lower() and str.upper() on the ASCII letters
LowerChar(c) ==
    IF \E k \in 1..26 : UpperChars[k] = c
    THEN LowerChars[CHOOSE k \in 1..26 : UpperChars[k] = c]
    ELSE c

UpperChar(c) ==
    IF \E k \in 1..26 : LowerChars[k] = c
    THEN UpperChars[CHOOSE k \in 1..26 : LowerChars[k] = c]
    ELSE c

Lower(s) == [k \in 1..Len(s) |-> LowerChar(s[k])]

Upper(s) == [k \in 1..Len(s) |-> UpperChar(s[k])]

\* index of the first sep in s at or after position a, 0 when there is none
RECURSIVE IndexOf(_, _, _)
IndexOf(s, sep, a) ==
    IF a > Len(s) THEN 0
    ELSE IF s[a] = sep THEN a ELSE IndexOf(s, sep, a + 1)

\* str.split(sep, maxsplit) for a one-character sep; maxsplit = -1 is unlimited
RECURSIVE Split(_, _, _)
Split(s, sep, maxsplit) ==
    LET p == IndexOf(s, sep, 1) IN
    IF maxsplit = 0 \/ p = 0 THEN <<s>>
    ELSE <<SubStr(s, 1, p - 1)>> \o
         Split(Tail_from(s, p + 1), sep, IF maxsplit < 0 THEN maxsplit ELSE maxsplit - 1)

RECURSIVE Pow10(_)
Pow10(n) == IF n = 0 THEN 1 ELSE 10 * Pow10(n - 1)

\* a run of decimal digits in which single underscores may separate digits
DigitGroupOK(s) ==
    /\ s # <<>>
    /\ IsDigit(s[1])
    /\ IsDigit(s[Len(s)])
    /\ \A k \in 1..Len(s) : IsDigit(s[k]) \/ s[k] = "_"
    /\ \A k \in 1..(Len(s) - 1) : ~(s[k] = "_" /\ s[k + 1] = "_")

RECURSIVE DigitGroupVal(_, _)
DigitGroupVal(s, acc) ==
    IF s = <<>> THEN acc
    ELSE IF s[1] = "_" THEN DigitGroupVal(Tail(s), acc)
    ELSE DigitGroupVal(Tail(s), 10 * acc + DigitVal(s[1]))

DigitCount(s) == Cardinality({k \in 1..Len(s) : IsDigit(s[k])})

\* int(s): surrounding whitespace, an optional sign, a digit group;
\* ok = FALSE stands for ValueError
py_int(s) ==
    LET t    == Strip(s)
        neg  == t # <<>> /\ t[1] = "-"
        sgn  == t # <<>> /\ t[1] \in {"-", "+"}
        body == IF sgn THEN Tail(t) ELSE t
    IN  IF DigitGroupOK(body)
        THEN [ok |-> TRUE,
              val |-> IF neg THEN 0 - DigitGroupVal(body, 0) ELSE DigitGroupVal(body, 0)]
        ELSE [ok |-> FALSE, val |-> 0]

\* int(s) where the code calls float(s)
py_float_as_int(s) ==
    [ok |-> py_int(s).ok, val |-> [units |-> py_int(s).val, places |-> 0]]

\* float(s) on decimal literals: surrounding whitespace, an optional sign,
\* digits with an optional point.  The value is units * 10^-places.
\* Exponents, inf and nan are not in the alphabet of the modelled inputs.
py_float(s) ==
    LET t     == Strip(s)
        neg   == t # <<>> /\ t[1] = "-"
        sgn   == t # <<>> /\ t[1] \in {"-", "+"}
        body  == IF sgn THEN Tail(t) ELSE t
        p     == IndexOf(body, ".", 1)
        ip    == IF p = 0 THEN body ELSE SubStr(body, 1, p - 1)
        fp    == IF p = 0 THEN <<>> ELSE Tail_from(body, p + 1)
        okk   == /\ ip # <<>> \/ fp # <<>>
                 /\ ip = <<>> \/ DigitGroupOK(ip)
                 /\ fp = <<>> \/ DigitGroupOK(fp)
        pl    == DigitCount(fp)
        mag   == DigitGroupVal(ip, 0) * Pow10(pl) + DigitGroupVal(fp, 0)
    IN  IF okk
        THEN [ok |-> TRUE, val |-> [units |-> IF neg THEN 0 - mag ELSE mag, places |-> pl]]
        ELSE [ok |-> FALSE, val |-> [units |-> 0, places |-> 0]]

(* ------------------------------------------------------------------ *)
(* the parser's constants and pure steps                              *)
(* ------------------------------------------------------------------ *)

FallbackFontsize == 48

\* color_map.get(code, 'white')
color_map(code) ==
    CASE code = <<"0", "0", "0", "0", "F", "F">> -> "blue"
      [] code = <<"0", "0", "F", "F", "0", "0">> -> "green"
      [] code = <<"F", "F", "0", "0", "0", "0">> -> "red"
      [] code = <<"F", "F", "F", "F", "0", "0">> -> "yellow"
      [] code = <<"F", "F", "0", "0", "F", "F">> -> "magenta"
      [] code = <<"F", "F", "F", "F", "F", "F">> -> "white"
      [] code = <<"0", "0", "0", "0", "0", "0">> -> "black"
      [] OTHER -> "white"

TagOpen == <<"{", "\\", "1", "c", "&", "H">>

TagClose == <<"&", "}">>

RevertTag == <<"{", "\\", "1", "c", "}">>

LineBreakEscape == <<"\\", "N">>

\* color_tag_pattern matches at position p of s: {\1c&H, six hex digits, &}
color_tag_pattern(s, p) ==
    /\ p + 13 <= Len(s)
    /\ SubStr(s, p, p + 5) = TagOpen
    /\ \A k \in (p + 6)..(p + 11) : s[k] \in HexChars
    /\ SubStr(s, p + 12, p + 13) = TagClose

\* color_tag_pattern.findall(s): the hex groups of the non-overlapping
\* matches, found scanning from the left
RECURSIVE FindAll(_, _)
FindAll(s, p) ==
    IF p > Len(s) THEN <<>>
    ELSE IF color_tag_pattern(s, p)
         THEN <<SubStr(s, p + 6, p + 11)>> \o FindAll(s, p + 14)
         ELSE FindAll(s, p + 1)

\* color_tag_pattern.sub('', s): one pass from the left
RECURSIVE SubColorTags(_, _)
SubColorTags(s, p) ==
    IF p > Len(s) THEN <<>>
    ELSE IF color_tag_pattern(s, p)
         THEN SubColorTags(s, p + 14)
         ELSE <<s[p]>> \o SubColorTags(s, p + 1)

\* str.replace(old, new) and re.sub of a literal: one pass from the left
RECURSIVE Replace(_, _, _, _)
Replace(s, old, new, p) ==
    IF p > Len(s) THEN <<>>
    ELSE IF p + Len(old) - 1 <= Len(s) /\ SubStr(s, p, p + Len(old) - 1) = old
         THEN new \o Replace(s, old, new, p + Len(old))
         ELSE <<s[p]>> \o Replace(s, old, new, p + 1)

\* found_colors[-1] in place of found_colors[0]
chosen_color_last(text_raw) ==
    LET found_colors == FindAll(text_raw, 1) IN
    IF found_colors # <<>>
    THEN color_map(Upper(found_colors[Len(found_colors)]))
    ELSE "white"

\* lines 100-107: the first color code found decides the color
chosen_color(text_raw) ==
    LET found_colors == FindAll(text_raw, 1) IN
    IF found_colors # <<>>
    THEN color_map(Upper(found_colors[1]))
    ELSE "white"

\* lines 110-116
text_clean(text_raw) ==
    Replace(Replace(SubColorTags(text_raw, 1), RevertTag, <<>>, 1),
            LineBreakEscape, <<"\n">>, 1)

\* minutes weighted like hours
total_seconds_minutes_as_hours(hours, minutes, seconds) ==
    [units  |-> (hours * 3600 + minutes * 3600) * Pow10(seconds.places) + seconds.units,
     places |-> seconds.places]

\* line 146: hours * 3600 + minutes * 60 + seconds, an int plus a float
total_seconds(hours, minutes, seconds) ==
    [units  |-> (hours * 3600 + minutes * 60) * Pow10(seconds.places) + seconds.units,
     places |-> seconds.places]

\* _ass_time_to_seconds: ok = FALSE stands for the ValueError of the
\* unpacking, of int() or of float()
ass_time_to_seconds(timestr) ==
    LET hms == Split(timestr, ":", -1) IN
    IF Len(hms) # 3 THEN [ok |-> FALSE, val |-> [units |-> 0, places |-> 0]]
    ELSE LET hours   == py_int(hms[1])
             minutes == py_int(hms[2])
             seconds == py_float(hms[3])
         IN  IF hours.ok /\ minutes.ok /\ seconds.ok
             THEN [ok |-> TRUE,
                   val |-> total_seconds(hours.val, minutes.val, seconds.val)]
             ELSE [ok |-> FALSE, val |-> [units |-> 0, places |-> 0]]

\* the style name compared without .lower()
style_fontsize_case_sensitive(line_stripped, current) ==
    LET parts      == Split(line_stripped, ",", -1)
        style_name == Strip(Split(parts[1], ":", 1)[2])
    IN  IF style_name = <<"D", "e", "f", "a", "u", "l", "t">>
        THEN IF Len(parts) >= 3 /\ py_int(parts[3]).ok
             THEN py_int(parts[3]).val
             ELSE current
        ELSE current

\* lines 66-75: the default font size after a Style: line
style_fontsize(line_stripped, current) ==
    LET parts      == Split(line_stripped, ",", -1)
        style_name == Strip(Split(parts[1], ":", 1)[2])
    IN  IF Lower(style_name) = <<"d", "e", "f", "a", "u", "l", "t">>
        THEN IF Len(parts) >= 3 /\ py_int(parts[3]).ok
             THEN py_int(parts[3]).val
             ELSE current
        ELSE current

\* lines 91-130: the dictionary built from the ten fields
item(fields, fontsize) ==
    [text     |-> text_clean(Strip(fields[10])),
     start    |-> ass_time_to_seconds(Strip(fields[2])).val,
     end      |-> ass_time_to_seconds(Strip(fields[3])).val,
     pos      |-> "center",
     fontsize |-> fontsize,
     color    |-> chosen_color(Strip(fields[10]))]

\* split(',') without the maxsplit
dialogue_fields_unlimited(line_stripped) == Split(line_stripped, ",", -1)

\* line 82: split with maxsplit = 9
dialogue_fields(line_stripped) == Split(line_stripped, ",", 9)

\* an off-by-one in the field count test of line 83
not_well_formed_off_by_one(fields) == Len(fields) <= 10

\* line 83: "Not well-formed, skip"
not_well_formed(fields) == Len(fields) < 10

\* list.insert(0, x) in place of list.append(x)
append_at_front(list, x) == <<x>> \o list

\* line 131
append(list, x) == Append(list, x)

(* ------------------------------------------------------------------ *)
(* input scripts                                                      *)
(* ------------------------------------------------------------------ *)

\* longest script of ScriptLines
MaxLines == 4

StylesHeader == <<"[", "V", "4", "+", " ", "S", "t", "y", "l", "e", "s", "]">>

EventsHeader == <<"[", "E", "v", "e", "n", "t", "s", "]">>

DialogueLine(start, end, payload) ==
    <<"D", "i", "a", "l", "o", "g", "u", "e", ":", " ", "0", ",">> \o start \o <<",">> \o end \o <<",", "D", ",", ",", "0", ",", "0", ",", "0", ",", ",">> \o payload

StyleLine(name, size) == <<"S", "t", "y", "l", "e", ":", " ">> \o name \o <<",", "A", "r", "i", "a", "l", ",">> \o size

\* lines of the scripts that exercise the scan: sections, styles, dialogue
ScriptLines ==
    { StylesHeader,
      EventsHeader,
      StyleLine(<<"D", "e", "f", "a", "u", "l", "t">>, <<"2", "4">>),
      StyleLine(<<"D", "E", "F", "A", "U", "L", "T">>, <<"-", "5">>),
      StyleLine(<<"d", "e", "f", "a", "u", "l", "t">>, <<"x">>),
      DialogueLine(<<"0", ":", "0", "0", ":", "0", "2", ".", "0", "0">>, <<"0", ":", "0", "0", ":", "0", "5", ".", "5", "0">>, <<"H", "i">>),
      <<" ", " ">> \o DialogueLine(<<"0", ":", "0", "0", ":", "0", "6", ".", "1", "0">>, <<"0", ":", "0", "0", ":", "0", "9", ".", "8", "0">>, <<"{", "\\", "1", "c", "&", "H", "0", "0", "F", "F", "0", "0", "&", "}", "a", ",", "b">>),
      <<"D", "i", "a", "l", "o", "g", "u", "e", ":", " ", "0", ",", "0", ":", "0", "0", ":", "0", "1", ".", "0", "0", ",", "0", ":", "0", "0", ":", "0", "2", ".", "0", "0", ",", "x">>,
      DialogueLine(<<"b", "a", "d">>, <<"0", ":", "0", "0", ":", "0", "2", ".", "0", "0">>, <<"x">>) }

\* start and end fields
TimeFields ==
    { <<"0", ":", "0", "0", ":", "0", "2", ".", "0", "0">>, <<"0", ":", "0", "0", ":", "0", "6", ".", "1", "0">>, <<"1", ":", "0", "2", ":", "0", "3", ".", "5", "0">>, <<"1", "0", ":", "5", "9", ":", "5", "9", ".", "9", "9">>,
      <<"-", "1", ":", "0", "0", ":", "0", "0", ".", "0", "0">>, <<"0", ":", "0", "0", ":", "-", "5", ".", "0", "0">>, <<"0", ":", "0", "0", ":", "0", "7">>, <<" ", "0", ":", "0", "0", ":", "0", "8", ".", "5">>,
      <<"b", "a", "d">>, <<"0", "0", ":", "0", "2", ".", "0", "0">>, <<"0", ":", "0", "x", ":", "0", "2", ".", "0", "0">>, <<"0", ":", "0", "0", ":", "0", "2", ".", "0", ".", "0">> }

\* text payloads (field 10)
Payloads ==
    { <<"H", "i">>,
      <<>>,
      <<"a", ",", " ", "b", ",", ",", "c">>,
      <<"o", "n", "e", "\\", "N", "t", "w", "o">>,
      <<"{", "\\", "1", "c", "&", "H", "F", "F", "0", "0", "0", "0", "&", "}", "H", "e", "l", "l", "o">>,
      <<"{", "\\", "1", "c", "&", "H", "0", "0", "0", "0", "f", "f", "&", "}", "a", "{", "\\", "1", "c", "&", "H", "0", "0", "F", "F", "0", "0", "&", "}", "b">>,
      <<"x", "{", "\\", "1", "c", "&", "H", "F", "F", "F", "F", "0", "0", "&", "}", "y", "{", "\\", "1", "c", "}", "z">>,
      <<"{", "\\", "1", "c", "&", "H", "F", "F", "0", "0", "F", "F", "&", "}", "m">>,
      <<"{", "\\", "1", "c", "&", "H", "F", "F", "F", "F", "F", "F", "&", "}", "{", "\\", "1", "c", "&", "H", "F", "F", "0", "0", "0", "0", "&", "}", "w">>,
      <<"{", "\\", "1", "c", "&", "H", "0", "0", "0", "0", "0", "0", "&", "}", "k">>,
      <<"{", "\\", "1", "c", "&", "H", "1", "2", "3", "4", "5", "6", "&", "}", "u">>,
      <<"{", "\\", "1", "c", "&", "H", "G", "G", "0", "0", "0", "0", "&", "}", "n">>,
      <<"{", "\\", "1", "c", "&", "H", "F", "F", "0", "0", "0", "0", "}", "n">>,
      <<"{", "\\", "1", "c", "}", "{", "\\", "1", "c", "&", "H", "0", "0", "f", "f", "0", "0", "&", "}">>,
      <<"{", "\\", "1", "c", "&", "H", "{", "\\", "1", "c", "}", "F", "F", "0", "0", "0", "0", "&", "}", "r">>,
      <<"{", "\\", "1", "c", "&", "H", "F", "F", "{", "\\", "1", "c", "&", "H", "0", "0", "F", "F", "0", "0", "&", "}", "0", "0", "0", "0", "&", "}", "g">>,
      <<"{", "\\", "{", "\\", "1", "c", "}", "1", "c", "}", "e">> }

\* size fields of a Default style line, and a line with no size field
StyleLines ==
    { StyleLine(<<"D", "e", "f", "a", "u", "l", "t">>, <<"4", "8">>),
      StyleLine(<<"D", "e", "f", "a", "u", "l", "t">>, <<" ", "3", "6", " ">>),
      StyleLine(<<" ", "d", "E", "f", "A", "u", "L", "t", " ">>, <<"+", "7", ",", "&", "H", "0", "0", "F", "F", "F", "F", "F", "F", ",", "0">>),
      StyleLine(<<"D", "e", "f", "a", "u", "l", "t">>, <<"1", "_", "0">>),
      StyleLine(<<"D", "e", "f", "a", "u", "l", "t">>, <<"0">>),
      StyleLine(<<"D", "e", "f", "a", "u", "l", "t">>, <<"4", ".", "5">>),
      StyleLine(<<"D", "e", "f", "a", "u", "l", "t">>, <<>>),
      StyleLine(<<"D", "e", "f", "a", "u", "l", "t", "2">>, <<"3", "0">>),
      <<"S", "t", "y", "l", "e", ":", " ", "D", "e", "f", "a", "u", "l", "t">>,
      <<"S", "t", "y", "l", "e", ":", "D", "e", "f", "a", "u", "l", "t", ",", "A", "r", "i", "a", "l">>,
      <<"F", "o", "r", "m", "a", "t", ":", " ", "N", "a", "m", "e", ",", " ", "F", "o", "n", "t", "n", "a", "m", "e", ",", " ", "F", "o", "n", "t", "s", "i", "z", "e">> }

RECURSIVE SeqsUpTo(_, _)
SeqsUpTo(S, n) ==
    IF n = 0 THEN {<<>>}
    ELSE LET shorter == SeqsUpTo(S, n - 1) IN
         shorter \cup {Append(s, x) : s \in {t \in shorter : Len(t) = n - 1}, x \in S}

\* the values of `lines` after line 45, ass_text.splitlines()
Scripts ==
    SeqsUpTo(ScriptLines, MaxLines)
    \cup {<<EventsHeader, DialogueLine(s, e, p)>> :
              s \in TimeFields, e \in TimeFields, p \in Payloads}
    \cup {<<StylesHeader, a, b, EventsHeader,
            DialogueLine(<<"0", ":", "0", "0", ":", "0", "2", ".", "0", "0">>, <<"0", ":", "0", "0", ":", "0", "5", ".", "5", "0">>, <<"H", "i">>)>> :
              a \in StyleLines, b \in StyleLines}

(* ------------------------------------------------------------------ *)
(* parse_ass_to_dicts_first_color as a state machine: one step per     *)
(* iteration of `for line in lines`, then the return                  *)
(* ------------------------------------------------------------------ *)

\* create_subtitles is not running
SubtitlesIdle ==
    /\ cs_pc = "idle"
    /\ video_found = FALSE
    /\ has_audio = FALSE
    /\ word_level = FALSE
    /\ video = "None"
    /\ pending = "none"
    /\ error_printed = FALSE
    /\ temp_exists = FALSE
    /\ remove_failed = FALSE
    /\ segments = 0
    /\ has_words = FALSE
    /\ srt_exists = FALSE
    /\ srt_written = 0
    /\ json_exists = FALSE

Init ==
    /\ SubtitlesIdle
    /\ lines \in Scripts
    /\ i = 1
    /\ in_styles_section = FALSE
    /\ in_events_section = FALSE
    /\ default_fontsize = FallbackFontsize
    /\ texts = <<>>
    /\ pc = "loop"

\* one iteration of the loop of lines 49-131
ScanLine ==
    /\ pc = "loop"
    /\ i <= Len(lines)
    /\ UNCHANGED subtitle_vars
    /\ LET line_stripped == Strip(lines[i]) IN
       IF StartsWith(line_stripped, StylesHeader)
       THEN /\ in_styles_section' = TRUE
            /\ in_events_section' = FALSE
            /\ i' = i + 1
            /\ UNCHANGED <<lines, default_fontsize, texts, pc>>
       ELSE IF StartsWith(line_stripped, EventsHeader)
       THEN /\ in_styles_section' = FALSE
            /\ in_events_section' = TRUE
            /\ i' = i + 1
            /\ UNCHANGED <<lines, default_fontsize, texts, pc>>
       ELSE
         LET fontsize == IF in_styles_section /\ StartsWith(line_stripped, <<"S", "t", "y", "l", "e", ":">>)
                         THEN style_fontsize(line_stripped, default_fontsize)
                         ELSE default_fontsize
         IN
         /\ default_fontsize' = fontsize
         /\ UNCHANGED <<lines, in_styles_section, in_events_section>>
         /\ IF in_events_section /\ StartsWith(line_stripped, <<"D", "i", "a", "l", "o", "g", "u", "e", ":">>)
            THEN LET fields == dialogue_fields(line_stripped) IN
                 IF not_well_formed(fields)
                 THEN /\ i' = i + 1
                      /\ UNCHANGED <<texts, pc>>
                 ELSE IF /\ ass_time_to_seconds(Strip(fields[2])).ok
                         /\ ass_time_to_seconds(Strip(fields[3])).ok
                      THEN /\ texts' = append(texts, item(fields, fontsize))
                           /\ i' = i + 1
                           /\ UNCHANGED pc
                      ELSE \* ValueError leaves the function
                           /\ pc' = "raised"
                           /\ UNCHANGED <<i, texts>>
            ELSE /\ i' = i + 1
                 /\ UNCHANGED <<texts, pc>>

\* lines 132-133
Return ==
    /\ pc = "loop"
    /\ i > Len(lines)
    /\ pc' = "returned"
    /\ UNCHANGED <<lines, i, in_styles_section, in_events_section,
                   default_fontsize, texts>>
    /\ UNCHANGED subtitle_vars

Next == ScanLine \/ Return

Spec == Init /\ [][Next]_vars

(* ------------------------------------------------------------------ *)
(* create_subtitles as a state machine: one step per call that can     *)
(* raise or that touches a file.  cs_pc is the position in the         *)
(* function; pending is the exception that leaves the try statement    *)
(* uncaught (SystemExit is not an Exception).  The files are the       *)
(* temporary audio file, the SRT file and the JSON file.               *)
(* ------------------------------------------------------------------ *)

\* most segments a transcription returns
MaxSegments == 2

\* main.py is not running
ParserIdle ==
    /\ lines = <<>>
    /\ i = 1
    /\ in_styles_section = FALSE
    /\ in_events_section = FALSE
    /\ default_fontsize = FallbackFontsize
    /\ texts = <<>>
    /\ pc = "idle"

\* the call is entered; the video file, its audio track, the flag and the
\* files already on disk are the inputs
InitSubtitles ==
    /\ ParserIdle
    /\ cs_pc = "validate"
    /\ video_found \in BOOLEAN
    /\ has_audio \in BOOLEAN
    /\ word_level \in BOOLEAN
    /\ temp_exists \in BOOLEAN
    /\ srt_exists \in BOOLEAN
    /\ json_exists \in BOOLEAN
    /\ video = "None"
    /\ pending = "none"
    /\ error_printed = FALSE
    /\ remove_failed = FALSE
    /\ segments = 0
    /\ has_words = FALSE
    /\ srt_written = 0

\* an Exception raised inside the try block: control goes to the except clause
RaiseInTry ==
    /\ cs_pc' = "except"
    /\ UNCHANGED <<pending, error_printed>>

\* lines 42-61: the existence check, outside the try statement
CheckVideoPath ==
    /\ cs_pc = "validate"
    /\ cs_pc' = IF video_found THEN "open_video" ELSE "exit_not_found"
    /\ UNCHANGED <<parser_vars, video_found, has_audio, word_level, video, pending,
                   error_printed, temp_exists, remove_failed, segments, has_words,
                   srt_exists, srt_written, json_exists>>

\* line 65: mp.VideoFileClip(video_path)
OpenVideo ==
    /\ cs_pc = "open_video"
    /\ \/ /\ video' = "open"
          /\ cs_pc' = "check_audio"
          /\ UNCHANGED <<pending, error_printed>>
       \/ /\ RaiseInTry
          /\ UNCHANGED video
    /\ UNCHANGED <<parser_vars, video_found, has_audio, word_level, temp_exists,
                   remove_failed, segments, has_words, srt_exists, srt_written,
                   json_exists>>

\* lines 66-71: no audio track: close the clip, then sys.exit(1)
CheckAudio ==
    /\ cs_pc = "check_audio"
    /\ IF has_audio
       THEN /\ cs_pc' = "write_audio"
            /\ UNCHANGED <<video, pending, error_printed>>
       ELSE \/ /\ video' = "closed"
               /\ pending' = "SystemExit"
               /\ cs_pc' = "finally"
               /\ UNCHANGED error_printed
            \/ /\ RaiseInTry
               /\ UNCHANGED video
    /\ UNCHANGED <<parser_vars, video_found, has_audio, word_level, temp_exists,
                   remove_failed, segments, has_words, srt_exists, srt_written,
                   json_exists>>

\* line 73: video.audio.write_audiofile(temp_audio_path); a failed write may
\* leave a partial file
WriteAudio ==
    /\ cs_pc = "write_audio"
    /\ \/ /\ temp_exists' = TRUE
          /\ cs_pc' = "close_video"
          /\ UNCHANGED <<pending, error_printed>>
       \/ /\ \E partial \in BOOLEAN : temp_exists' = (temp_exists \/ partial)
          /\ RaiseInTry
    /\ UNCHANGED <<parser_vars, video_found, has_audio, word_level, video,
                   remove_failed, segments, has_words, srt_exists, srt_written,
                   json_exists>>

\* lines 75-76: video.close(); video = None
CloseVideo ==
    /\ cs_pc = "close_video"
    /\ \/ /\ video' = "None"
          /\ cs_pc' = "load_model"
          /\ UNCHANGED <<pending, error_printed>>
       \/ /\ RaiseInTry
          /\ UNCHANGED video
    /\ UNCHANGED <<parser_vars, video_found, has_audio, word_level, temp_exists,
                   remove_failed, segments, has_words, srt_exists, srt_written,
                   json_exists>>

\* line 80: whisper.load_model(model_name)
LoadModel ==
    /\ cs_pc = "load_model"
    /\ \/ /\ cs_pc' = "transcribe"
          /\ UNCHANGED <<pending, error_printed>>
       \/ RaiseInTry
    /\ UNCHANGED <<parser_vars, video_found, has_audio, word_level, video,
                   temp_exists, remove_failed, segments, has_words, srt_exists,
                   srt_written, json_exists>>

\* lines 85-87: model.transcribe(temp_audio_path, ...)
Transcribe ==
    /\ cs_pc = "transcribe"
    /\ \/ /\ segments' \in 0..MaxSegments
          /\ has_words' \in BOOLEAN
          /\ cs_pc' = "write_srt"
          /\ UNCHANGED <<pending, error_printed>>
       \/ /\ RaiseInTry
          /\ UNCHANGED <<segments, has_words>>
    /\ UNCHANGED <<parser_vars, video_found, has_audio, word_level, video,
                   temp_exists, remove_failed, srt_exists, srt_written, json_exists>>

\* lines 92-100: open the SRT file and write the segments; the open or any
\* write may raise
WriteSrt ==
    /\ cs_pc = "write_srt"
    /\ \/ /\ srt_exists' = TRUE
          /\ srt_written' = segments
          /\ cs_pc' = "write_json"
          /\ UNCHANGED <<pending, error_printed>>
       \/ /\ \E done \in 0..segments :
                /\ srt_exists' = TRUE
                /\ srt_written' = done
          /\ RaiseInTry
       \/ /\ UNCHANGED <<srt_exists, srt_written>>
          /\ RaiseInTry
    /\ UNCHANGED <<parser_vars, video_found, has_audio, word_level, video,
                   temp_exists, remove_failed, segments, has_words, json_exists>>

\* lines 103-160: the JSON file when word timings were asked for and found,
\* else the stale JSON file is removed
WriteJson ==
    /\ cs_pc = "write_json"
    /\ IF ~word_level
       THEN /\ cs_pc' = "finally"
            /\ UNCHANGED <<json_exists, pending, error_printed>>
       ELSE IF segments > 0 /\ has_words
       THEN \/ /\ json_exists' = TRUE
               /\ cs_pc' = "finally"
               /\ UNCHANGED <<pending, error_printed>>
            \/ /\ \E created \in BOOLEAN : json_exists' = (json_exists \/ created)
               /\ RaiseInTry
       ELSE \/ /\ json_exists' = FALSE
               /\ cs_pc' = "finally"
               /\ UNCHANGED <<pending, error_printed>>
            \/ /\ json_exists
               /\ UNCHANGED json_exists
               /\ RaiseInTry
    /\ UNCHANGED <<parser_vars, video_found, has_audio, word_level, video,
                   temp_exists, remove_failed, segments, has_words, srt_exists,
                   srt_written>>

\* lines 162-174: the error is printed and the clip closed if it is still
\* set; an error of that close is caught
HandleException ==
    /\ cs_pc = "except"
    /\ error_printed' = TRUE
    /\ IF video # "None"
       THEN \E closed \in BOOLEAN : video' = IF closed THEN "closed" ELSE video
       ELSE UNCHANGED video
    /\ cs_pc' = "finally"
    /\ UNCHANGED <<parser_vars, video_found, has_audio, word_level, pending,
                   temp_exists, remove_failed, segments, has_words, srt_exists,
                   srt_written, json_exists>>

\* the cleanup written as the last statements of the try block: it is
\* skipped when the block is left by an exception
Cleanup_at_end_of_try ==
    /\ cs_pc = "finally"
    /\ IF temp_exists /\ pending = "none" /\ ~error_printed
       THEN \E removed \in BOOLEAN :
               /\ temp_exists' = ~removed
               /\ remove_failed' = ~removed
       ELSE UNCHANGED <<temp_exists, remove_failed>>
    /\ cs_pc' = IF pending = "SystemExit" THEN "exited" ELSE "returned"
    /\ UNCHANGED <<parser_vars, video_found, has_audio, word_level, video, pending,
                   error_printed, segments, has_words, srt_exists, srt_written,
                   json_exists>>

\* lines 176-185: the finally clause removes the temporary file if it exists;
\* an error of os.remove is caught.  Then the function returns, or the pending
\* SystemExit goes on to the caller.
Cleanup ==
    /\ cs_pc = "finally"
    /\ IF temp_exists
       THEN \E removed \in BOOLEAN :
               /\ temp_exists' = ~removed
               /\ remove_failed' = ~removed
       ELSE UNCHANGED <<temp_exists, remove_failed>>
    /\ cs_pc' = IF pending = "SystemExit" THEN "exited" ELSE "returned"
    /\ UNCHANGED <<parser_vars, video_found, has_audio, word_level, video, pending,
                   error_printed, segments, has_words, srt_exists, srt_written,
                   json_exists>>

NextSubtitles ==
    \/ CheckVideoPath
    \/ OpenVideo
    \/ CheckAudio
    \/ WriteAudio
    \/ CloseVideo
    \/ LoadModel
    \/ Transcribe
    \/ WriteSrt
    \/ WriteJson
    \/ HandleException
    \/ Cleanup

SpecSubtitles == InitSubtitles /\ [][NextSubtitles]_vars

(* ------------------------------------------------------------------ *)
(* what the specification says of a script, stated on the script      *)
(* itself, position by position, without the parser's state           *)
(* ------------------------------------------------------------------ *)

SetMax(S) == CHOOSE x \in S : \A y \in S : y <= x

SetMin(S) == CHOOSE x \in S : \A y \in S : x <= y

CommaPos(s) == {p \in 1..Len(s) : s[p] = ","}

NthComma(s, n) == CHOOSE p \in CommaPos(s) : Cardinality({q \in CommaPos(s) : q <= p}) = n

\* the n-th comma-separated field, 2 <= n, of a string with at least n commas
FieldOf(s, n) == SubStr(s, NthComma(s, n - 1) + 1, NthComma(s, n) - 1)

\* everything after the ninth comma, trimmed
PayloadOf(s) == Strip(Tail_from(s, NthComma(s, 9) + 1))

HeaderKind(l) ==
    IF StartsWith(Strip(l), StylesHeader) THEN "styles"
    ELSE IF StartsWith(Strip(l), EventsHeader) THEN "events"
    ELSE "none"

\* the section line k is scanned in: the kind of the last header before it
SectionAt(k) ==
    LET H == {j \in 1..(k - 1) : HeaderKind(lines[j]) # "none"} IN
    IF H = {} THEN "none" ELSE HeaderKind(lines[SetMax(H)])

StartsWithDialogue(k) == StartsWith(Strip(lines[k]), <<"D", "i", "a", "l", "o", "g", "u", "e", ":">>)

\* a line that starts with Dialogue:, lies in the Events section and has
\* at least ten comma-separated fields
WellFormedDialogue(k) ==
    /\ HeaderKind(lines[k]) = "none"
    /\ SectionAt(k) = "events"
    /\ StartsWithDialogue(k)
    /\ Cardinality(CommaPos(Strip(lines[k]))) >= 9

WellFormedUpTo(n) == {k \in 1..n : WellFormedDialogue(k)}

\* the line the k-th descriptor was produced from
Src(k) ==
    LET W == WellFormedUpTo(Len(lines)) IN
    CHOOSE j \in W : Cardinality({m \in W : m <= j}) = k

Sourced(k) == k <= Cardinality(WellFormedUpTo(Len(lines)))

\* C1 as stated: for every input script the call ends with a returned list
\* whose length is the number of well-formed dialogue lines of the script.
C1_EveryScriptCounted ==
    pc # "loop" =>
        /\ pc = "returned"
        /\ Len(texts) = Cardinality(WellFormedUpTo(Len(lines)))

\* C1 amended: the lines scanned so far have produced exactly one descriptor
\* per well-formed dialogue line and none for any other line, so a returned
\* list has as many descriptors as the script has well-formed dialogue lines.
C1_OnePerWellFormedLine ==
    /\ pc # "raised" => Len(texts) = Cardinality(WellFormedUpTo(i - 1))
    /\ pc = "returned" => Len(texts) = Cardinality(WellFormedUpTo(Len(lines)))

\* a returned parse that emitted for a well-formed line and skipped a dialogue
\* line before any header and a dialogue line with fewer than ten fields
C1_Witness ==
    /\ pc = "returned"
    /\ Len(texts) >= 1
    /\ \E k \in 1..Len(lines) :
          StartsWithDialogue(k) /\ SectionAt(k) = "none"
    /\ \E k \in 1..Len(lines) :
          /\ StartsWithDialogue(k) /\ SectionAt(k) = "events"
          /\ Cardinality(CommaPos(Strip(lines[k]))) < 9
\* the fields of a descriptor that its source line alone decides
SameEvent(d, k) ==
    LET x == item(dialogue_fields(Strip(lines[k])), d.fontsize) IN d = x

\* C2: the k-th descriptor is the descriptor of the k-th well-formed dialogue
\* line of the script, so descriptors are in the order of their source lines,
\* and a scan step only ever appends: the descriptors already emitted stay
\* where they are.
C2_SourceOrder ==
    /\ [](\A k \in 1..Len(texts) : Sourced(k) /\ SameEvent(texts[k], Src(k)))
    /\ [][SubSeq(texts', 1, Len(texts)) = texts]_vars

\* two different descriptors were returned
C2_Witness ==
    /\ pc = "returned"
    /\ Len(texts) >= 2
    /\ texts[1] # texts[2]
\* H:MM:SS.ss: one or more hour digits, two minute digits, two second
\* digits and two digits of hundredths
StrictTime(t) ==
    LET c == IndexOf(t, ":", 1) IN
    /\ c >= 2
    /\ Len(t) = c + 8
    /\ t[c + 3] = ":"
    /\ t[c + 6] = "."
    /\ \A k \in (1..Len(t)) \ {c, c + 3, c + 6} : IsDigit(t[k])

\* 360000*H + 6000*MM + 100*SS + ss of a StrictTime
Hundredths(t) ==
    LET c == IndexOf(t, ":", 1)
        d(k) == DigitVal(t[k])
    IN  360000 * DigitGroupVal(SubStr(t, 1, c - 1), 0)
        + 6000 * (10 * d(c + 1) + d(c + 2))
        + 100 * (10 * d(c + 4) + d(c + 5))
        + 10 * d(c + 7) + d(c + 8)

StartField(k) == Strip(FieldOf(Strip(lines[k]), 2))

EndField(k) == Strip(FieldOf(Strip(lines[k]), 3))

\* C3 as stated: the call never fails, whatever the input.
C3_NeverFails == pc # "raised"

\* C3 amended: the call fails only while scanning a dialogue line of the
\* Events section that has at least ten fields and whose start or end field
\* is not of the form H:MM:SS.ss; style lines of any shape and dialogue lines
\* with fewer than ten fields never make it fail.
C3_FailsOnlyOnBadTime ==
    pc = "raised" =>
        /\ i <= Len(lines)
        /\ WellFormedDialogue(i)
        /\ ~(StrictTime(StartField(i)) /\ StrictTime(EndField(i)))

\* the call failed at a dialogue line with a malformed time, after a
\* dialogue line with fewer than ten fields had been skipped
C3_Witness ==
    /\ pc = "raised"
    /\ \E k \in 1..(i - 1) :
          /\ StartsWithDialogue(k) /\ SectionAt(k) = "events"
          /\ Cardinality(CommaPos(Strip(lines[k]))) < 9
\* a color tag {\1c&HXXXXXX&} with six hex digits starts at position p of s
ColorTagAt(s, p) ==
    /\ p >= 1
    /\ p + 13 <= Len(s)
    /\ <<s[p], s[p + 1], s[p + 2], s[p + 3], s[p + 4], s[p + 5]>> = <<"{", "\\", "1", "c", "&", "H">>
    /\ \A k \in 6..11 : s[p + k] \in HexChars
    /\ <<s[p + 12], s[p + 13]>> = <<"&", "}">>

ColorTagPositions(s) == {p \in 1..Len(s) : ColorTagAt(s, p)}

\* the table of the specification
ColorTable ==
    { <<<<"0", "0", "0", "0", "F", "F">>, "blue">>, <<<<"0", "0", "F", "F", "0", "0">>, "green">>, <<<<"F", "F", "0", "0", "0", "0">>, "red">>,
      <<<<"F", "F", "F", "F", "0", "0">>, "yellow">>, <<<<"F", "F", "0", "0", "F", "F">>, "magenta">>, <<<<"F", "F", "F", "F", "F", "F">>, "white">>,
      <<<<"0", "0", "0", "0", "0", "0">>, "black">> }

\* the color the first tag of a payload names, white without a tag or
\* with a code that is not in the table
FirstTagColor(s) ==
    IF ColorTagPositions(s) = {} THEN "white"
    ELSE LET p    == SetMin(ColorTagPositions(s))
             code == SubStr(s, p + 6, p + 11)
         IN  IF \E e \in ColorTable : Upper(e[1]) = Upper(code)
             THEN (CHOOSE e \in ColorTable : Upper(e[1]) = Upper(code))[2]
             ELSE "white"

\* C4: the color of every descriptor is the color of the first color tag of
\* its dialogue text, looked up case-insensitively in the fixed table; it is
\* white when the code is unknown or the text has no tag; later tags do not
\* change it.
C4_FirstTagDecidesColor ==
    \A k \in 1..Len(texts) :
        Sourced(k) /\ texts[k].color = FirstTagColor(PayloadOf(Strip(lines[Src(k)])))

\* a descriptor made from a text with two tags of different colors, the
\* first written in lower case
C4_Witness ==
    /\ pc = "returned"
    /\ Len(texts) = 1
    /\ texts[1].color = "blue"
    /\ Cardinality(ColorTagPositions(PayloadOf(lines[2]))) = 2

\* the name of a Style: line: between the colon and the first comma, trimmed
StyleNameOf(s) ==
    LET c == IndexOf(s, ",", 1) IN
    Strip(SubStr(s, 7, IF c = 0 THEN Len(s) ELSE c - 1))

\* the third comma-separated field of a line with at least two commas
SizeFieldOf(s) ==
    LET a == NthComma(s, 2)
        b == IndexOf(s, ",", a + 1)
    IN  SubStr(s, a + 1, IF b = 0 THEN Len(s) ELSE b - 1)

\* a Style: line named Default, scanned in a Styles section, whose third
\* field parses as an integer
SizedDefaultStyle(k) ==
    LET s == Strip(lines[k]) IN
    /\ HeaderKind(lines[k]) = "none"
    /\ SectionAt(k) = "styles"
    /\ StartsWith(s, <<"S", "t", "y", "l", "e", ":">>)
    /\ Lower(StyleNameOf(s)) = <<"d", "e", "f", "a", "u", "l", "t">>
    /\ Cardinality(CommaPos(s)) >= 2
    /\ py_int(SizeFieldOf(s)).ok

ExpectedFontsize(k) ==
    LET D == {j \in 1..(k - 1) : SizedDefaultStyle(j)} IN
    IF D = {} THEN 48 ELSE py_int(SizeFieldOf(Strip(lines[SetMax(D)]))).val

\* C5: the fontsize of every descriptor is the size of the most recent
\* Default style line that precedes its dialogue line in a Styles section and
\* has an integer size, and 48 when there is none.
C5_FontsizeFromDefaultStyle ==
    \A k \in 1..Len(texts) :
        Sourced(k) /\ texts[k].fontsize = ExpectedFontsize(Src(k))

\* a Default style of size 36 followed by a Default style whose size does
\* not parse: the descriptor keeps 36
C5_Witness ==
    /\ pc = "returned"
    /\ Len(lines) = 5
    /\ lines[2] = StyleLine(<<"D", "e", "f", "a", "u", "l", "t">>, <<" ", "3", "6", " ">>)
    /\ lines[3] = StyleLine(<<"D", "e", "f", "a", "u", "l", "t">>, <<"4", ".", "5">>)
    /\ Len(texts) = 1
    /\ texts[1].fontsize = 36

\* C6: for start and end fields of the form H:MM:SS.ss the descriptor holds
\* hours*3600 + minutes*60 + seconds, that is 360000*H + 6000*MM + 100*SS + ss
\* hundredths of a second, start from field 2 and end from field 3;
\* 0:00:06.10 gives 6.10 and 1:02:03.50 gives 3723.50.
C6_TimeInHundredths ==
    \A k \in 1..Len(texts) :
        /\ Sourced(k)
        /\ LET sf == StartField(Src(k))
               ef == EndField(Src(k))
           IN  /\ StrictTime(sf) =>
                    texts[k].start = [units |-> Hundredths(sf), places |-> 2]
               /\ StrictTime(ef) =>
                    texts[k].end = [units |-> Hundredths(ef), places |-> 2]
               /\ sf = <<"0", ":", "0", "0", ":", "0", "6", ".", "1", "0">> => texts[k].start.units = 610
               /\ sf = <<"1", ":", "0", "2", ":", "0", "3", ".", "5", "0">> => texts[k].start.units = 372350
               /\ ef = <<"0", ":", "0", "0", ":", "0", "6", ".", "1", "0">> => texts[k].end.units = 610
               /\ ef = <<"1", ":", "0", "2", ":", "0", "3", ".", "5", "0">> => texts[k].end.units = 372350

\* a descriptor from 0:00:06.10 to 1:02:03.50
C6_Witness ==
    /\ pc = "returned"
    /\ Len(texts) = 1
    /\ StartField(2) = <<"0", ":", "0", "0", ":", "0", "6", ".", "1", "0">>
    /\ EndField(2) = <<"1", ":", "0", "2", ":", "0", "3", ".", "5", "0">>
    /\ texts[1].start = [units |-> 610, places |-> 2]
    /\ texts[1].end = [units |-> 372350, places |-> 2]
\* the literal w occurs in s at position p
OccursAt(s, w, p) ==
    /\ p >= 1
    /\ p + Len(w) - 1 <= Len(s)
    /\ \A k \in 1..Len(w) : s[p + k - 1] = w[k]

Occurs(s, w) == \E p \in 1..Len(s) : OccursAt(s, w, p)

\* C7: no descriptor's text contains a color tag {\1c&HXXXXXX&} or an empty
\* revert tag {\1c}.
C7_NoTagLeftInText ==
    \A k \in 1..Len(texts) :
        /\ ColorTagPositions(texts[k].text) = {}
        /\ ~Occurs(texts[k].text, <<"{", "\\", "1", "c", "}">>)

\* C8: every returned descriptor has start >= 0 and end >= 0.
C8_TimesNonNegative ==
    pc = "returned" =>
        \A k \in 1..Len(texts) : texts[k].start.units >= 0 /\ texts[k].end.units >= 0

\* C9: every returned descriptor has a fontsize of at least 1.
C9_FontsizePositive ==
    pc = "returned" => \A k \in 1..Len(texts) : texts[k].fontsize >= 1

\* a payload with no color tag, no revert tag and no line-break escape
PlainPayload(s) ==
    /\ ColorTagPositions(s) = {}
    /\ ~Occurs(s, <<"{", "\\", "1", "c", "}">>)
    /\ ~Occurs(s, <<"\\", "N">>)

\* C10: the text of a descriptor is what follows the ninth comma of its
\* dialogue line: when that payload has no tags or escapes the text is the
\* trimmed payload, commas included, and however many commas the payload has
\* the line has produced one descriptor.
C10_PayloadAfterNinthComma ==
    /\ \A k \in 1..Len(texts) :
          /\ Sourced(k)
          /\ PlainPayload(PayloadOf(Strip(lines[Src(k)]))) =>
                texts[k].text = PayloadOf(Strip(lines[Src(k)]))
    /\ Len(texts) <= Cardinality({k \in 1..(i - 1) : StartsWithDialogue(k)})

\* a descriptor whose text kept the three commas of its payload
C10_Witness ==
    /\ pc = "returned"
    /\ Len(texts) = 1
    /\ texts[1].text = <<"a", ",", " ", "b", ",", ",", "c">>

\* the call is over after the existence check had passed
SubtitlesEnded == cs_pc \in {"returned", "exited"}

\* C11: once the video-exists check has passed the call ends only through
\* the cleanup step, whichever way the try block was left, and when it has
\* ended the temporary audio file is gone unless its deletion failed; a caught
\* exception ends in a normal return and the missing audio track in an exit.
C11_TempAudioDoesNotOutliveCall ==
    /\ [](SubtitlesEnded => (~temp_exists \/ remove_failed))
    /\ [](SubtitlesEnded /\ error_printed => cs_pc = "returned")
    /\ [](cs_pc = "exited" => ~has_audio /\ pending = "SystemExit")
    /\ [][SubtitlesEnded' /\ ~SubtitlesEnded => cs_pc = "finally"]_vars

\* the audio was extracted and transcribed, a later step raised, the error
\* was printed, and the call returned with the temporary file removed
C11_Witness ==
    /\ cs_pc = "returned"
    /\ error_printed
    /\ segments > 0
    /\ ~temp_exists
    /\ ~remove_failed
====
